---- MODULE Spec2Model ----
(***************************************************************************)
(* Model of src/main.py: the register / login / upload handlers of the     *)
(* voice application and the four CSV tables they share.                   *)
(*                                                                         *)
(* The handlers are coroutines on one event loop.  A handler runs without  *)
(* interruption between two awaits, so each stretch of code between awaits *)
(* is one action.  register awaits voice.read() between its email check    *)
(* and its appends; business_upload awaits audio.read() between            *)
(* verify_token and the pipeline; login has no await at all.               *)
(***************************************************************************)
EXTENDS Integers, Sequences, FiniteSets, Bags, TLC

\* ------------------------------------------------------------------ bounds
MaxUuid == 3        \* uuid4() values drawn by registrations and logins
MaxTime == 1        \* largest clock reading
MaxDelay == 1       \* largest time elapsed between two clock reads of a handler
MaxRegistering == 2 \* register requests suspended at their await together
MaxUploading == 1   \* upload requests suspended at their await together
MaxUsers == 2       \* rows of users.csv
MaxRecords == 2     \* rows of records.csv
MaxReminders == 2   \* rows of reminders.csv

\* ------------------------------------------------------- program constants
BcryptLimit == 72   \* p[:72] in hash_password / verify_password

\* ------------------------------------------------------------ input values
Delays == 0..MaxDelay
Names == {"alice"}
Emails == {"a@x", "A@x"}
Passwords == {<<"p">>}               \* passwords users register with
LoginPasswords == {<<"p">>, <<"q">>}  \* passwords login is tried with
Departments == {"sales"}
Transcripts == {"remind me"}
Summaries == {"sum"}

\* file names are sequences of characters
WavName == <<"c", ".", "w", "a", "v">>
UpperWavName == <<"c", ".", "W", "A", "V">>
XyzName == <<"c", ".", "x", "y", "z">>
Filenames == {UpperWavName, XyzName}        \* names of the file sent to upload
VoiceFilenames == {WavName, UpperWavName}   \* names of the file sent to register

\* ------------------------------------------------- Python / JSON values
\* A Python value that json.loads can return, tagged with its type.
None == [t |-> "null"]
JBool(b) == [t |-> "bool", v |-> b]
JStr(s) == [t |-> "str", v |-> s]
JNum(n) == [t |-> "num", v |-> n]
JList == [t |-> "list"]
JObj(f) == [t |-> "obj", v |-> f]

\* bool(x) of a Python value
Truthy(x) ==
    CASE x.t = "null" -> FALSE
      [] x.t = "bool" -> x.v
      [] x.t = "str" -> x.v # ""
      [] x.t = "num" -> x.v # 0
      [] x.t = "list" -> FALSE
      [] x.t = "obj" -> DOMAIN x.v # {}

\* dict.get(k): the value under k, None when the key is absent
DictGet(d, k) == IF k \in DOMAIN d.v THEN d.v[k] ELSE None

\* str(n) for the numbers the model uses
NumToStr(n) == CASE n = 0 -> "0" [] n = 1 -> "1" [] n = 5 -> "5" [] OTHER -> "n"

\* csv.writer().writerow followed by csv.DictReader: the field as it is read
\* back.  None is written as the empty field, a non-string as str(value).
CsvField(x) ==
    CASE x.t = "null" -> ""
      [] x.t = "str" -> x.v
      [] x.t = "num" -> NumToStr(x.v)
      [] x.t = "bool" -> IF x.v THEN "True" ELSE "False"
      [] OTHER -> "[]"

\* Python ==  between a field read from a CSV file (always a str) and a value
StrEq(s, x) == x.t = "str" /\ x.v = s

\* ------------------------------------------------------------------ state
\* The tables hold the rows as read_csv returns them.  The created_at column
\* of users and voices and the timestamp column of records are written once
\* and read by no handler, and so are the id columns of records and reminders;
\* the rows of the model leave them out.
VARIABLES
    users,      \* rows of users.csv, in file order: id, name, email, password, token
    voices,     \* rows of voices.csv: user_id, embedding
    records,    \* rows of records.csv: user, department, transcript, summary
    reminders,  \* rows of reminders.csv: user, text, remind_at, created_at
    reqs,       \* the requests suspended at an await: a bag of coroutine frames
    now,        \* the wall clock, datetime.now()
    uuids,      \* number of uuid4() values drawn so far
    resp        \* the response of the last completed call

vars == <<users, voices, records, reminders, reqs, now, uuids, resp>>

\* no call has completed yet
NoResp == [op |-> "none", status |-> 0]

\* the number of suspended requests of one handler
NumSuspended(pc) ==
    BagCardinality([q \in {k \in BagToSet(reqs) : k.pc = pc} |-> CopiesIn(q, reqs)])

Suspend(frame) == reqs (+) SetToBag({frame})

Resume(frame) == reqs (-) SetToBag({frame})

\* ---------------------------------------------------------------- security
\* p[:72]
Trunc(p) == SubSeq(p, 1, IF Len(p) < BcryptLimit THEN Len(p) ELSE BcryptLimit)

\* pwd_context.hash(p[:72]): a digest that verifies exactly the truncated input
hash_password(p) == [bcrypt |-> Trunc(p)]

\* pwd_context.verify(p[:72], h)
verify_password(p, h) == h.bcrypt = Trunc(p)

\* uuid.uuid4().hex as a string: the n-th value drawn, different from all
\* earlier ones and never the empty string
Uuid4Hex(n) == <<n>>

\* the empty string, in the representation of Uuid4Hex
EmptyStr == <<>>

\* mutant of generate_token: every login draws the same token
generate_token_fixed(n) == Uuid4Hex(1)

\* generate_token() when n values were drawn before
generate_token(n) == Uuid4Hex(n + 1)

\* ------------------------------------------------------------------ helpers
\* read_csv over the users table, then the first row whose token matches
MatchingRows(rows, token) == {i \in 1..Len(rows) : rows[i].token = token}

Min(S) == CHOOSE m \in S : \A k \in S : m <= k

\* mutant of append_csv: the file is opened with "w", the row replaces the table
append_csv_overwrite(rows, row) == <<row>>

\* append_csv: the file is opened with "a" and one row is written at its end
append_csv(rows, row) == Append(rows, row)

\* mutant of verify_token: the first row, whatever token it holds
verify_token_first_row(rows, token) ==
    IF rows = <<>>
    THEN [status |-> 401]
    ELSE [status |-> 200, user |-> rows[1]]

\* verify_token: the first user row whose token equals the argument, raising
\* HTTPException(401) when next() yields None
verify_token(rows, token) ==
    IF MatchingRows(rows, token) = {}
    THEN [status |-> 401]
    ELSE [status |-> 200, user |-> rows[Min(MatchingRows(rows, token))]]

\* mutant of EmailTaken: only the first row is compared
EmailTakenFirstRow(rows, email) == Len(rows) > 0 /\ rows[1].email = email

\* mutant of EmailTaken: only the last row is compared
EmailTakenLastRow(rows, email) == Len(rows) > 0 /\ rows[Len(rows)].email = email

\* any(u["email"] == email for u in read_csv(users))
EmailTaken(rows, email) == \E i \in 1..Len(rows) : rows[i].email = email

\* ------------------------------------------------------------ file names
Lower(c) == CASE c = "W" -> "w" [] c = "A" -> "a" [] c = "V" -> "v" [] OTHER -> c

\* str.lower()
LowerStr(s) == [i \in 1..Len(s) |-> Lower(s[i])]

\* index of the last "." of s, 0 when there is none
LastDot(s) ==
    LET dots == {i \in 1..Len(s) : s[i] = "."}
    IN IF dots = {} THEN 0 ELSE CHOOSE m \in dots : \A k \in dots : k <= m

\* filename.lower().split(".")[-1]
Ext(filename) ==
    LET s == LowerStr(filename) IN SubSeq(s, LastDot(s) + 1, Len(s))

\* voice.filename.endswith(".wav")
EndsWithWav(filename) ==
    /\ Len(filename) >= 4
    /\ SubSeq(filename, Len(filename) - 3, Len(filename)) = <<".", "w", "a", "v">>

\* the mime table of speech_to_text; NoMime is dict.get's None
NoMime == "none"

\* mutant of MimeOf: dict.get with a default mime type
MimeOfWithDefault(ext) ==
    CASE ext = <<"w", "a", "v">> -> "audio/wav"
      [] ext = <<"m", "p", "3">> -> "audio/mpeg"
      [] ext = <<"m", "p", "4">> -> "audio/mp4"
      [] ext = <<"o", "g", "g">> -> "audio/ogg"
      [] OTHER -> "application/octet-stream"

MimeOf(ext) ==
    CASE ext = <<"w", "a", "v">> -> "audio/wav"
      [] ext = <<"m", "p", "3">> -> "audio/mpeg"
      [] ext = <<"m", "p", "4">> -> "audio/mp4"
      [] ext = <<"o", "g", "g">> -> "audio/ogg"
      [] OTHER -> NoMime

\* ------------------------------------------------------------------- time
\* Instants are integers.  A remind_at string is a sequence of characters and
\* the format of strptime is one numeric field, which like %M takes one or two
\* digits: "1" and "01" are different strings for the same instant.
DigitVal(c) ==
    CASE c = "0" -> 0 [] c = "1" -> 1 [] c = "2" -> 2 [] c = "3" -> 3 [] c = "4" -> 4
      [] c = "5" -> 5 [] c = "6" -> 6 [] c = "7" -> 7 [] c = "8" -> 8 [] c = "9" -> 9
      [] OTHER -> -1

\* strptime raised ValueError
BadTime == -1

\* datetime.strptime(s, fmt) of a str s
strptime(s) ==
    IF Len(s) = 1 /\ DigitVal(s[1]) >= 0 THEN DigitVal(s[1])
    ELSE IF Len(s) = 2 /\ DigitVal(s[1]) >= 0 /\ DigitVal(s[2]) >= 0
         THEN 10 * DigitVal(s[1]) + DigitVal(s[2])
         ELSE BadTime

\* is_future_time read at instant t: strptime raises TypeError on a value
\* that is not a str and ValueError on a str it cannot parse, both caught
is_future_time(remind_at, t) ==
    /\ remind_at.t = "str"
    /\ strptime(remind_at.v) # BadTime
    /\ strptime(remind_at.v) > t

\* mutant of is_duplicate_reminder: the user is not compared
is_duplicate_reminder_any_user(rows, user, text, time) ==
    \E i \in 1..Len(rows) :
        StrEq(rows[i].text, text) /\ StrEq(rows[i].remind_at, time)

\* is_duplicate_reminder over the rows read_csv returns
is_duplicate_reminder(rows, user, text, time) ==
    \E i \in 1..Len(rows) :
        rows[i].user = user /\ StrEq(rows[i].text, text) /\ StrEq(rows[i].remind_at, time)

\* ----------------------------------------------------------------- gemini
\* The text of a model response is a sequence of tokens: a code fence, a
\* word, or a complete JSON value.
Fence == [t |-> "fence"]
Word(w) == [t |-> "word", v |-> w]
JsonTypes == {"null", "bool", "str", "num", "list", "obj"}

\* what generate_content(...).text does: raise, or give a text
Raises == [ok |-> FALSE]
Text(toks) == [ok |-> TRUE, text |-> toks]

NotFence(k) == k.t # "fence"

\* raw.replace("```", "")
StripFences(toks) == SelectSeq(toks, NotFence)

NotFound == JObj([found |-> JBool(FALSE)])

\* extract_reminder: json.loads of the text without its fences, which raises
\* unless one JSON value is all that is left; every exception gives NotFound
extract_reminder(out) ==
    IF ~out.ok THEN NotFound
    ELSE LET toks == StripFences(out.text)
         IN IF Len(toks) = 1 /\ toks[1].t \in JsonTypes THEN toks[1] ELSE NotFound

\* results of the reminder extraction
Reminder(time, msg) ==
    JObj([found |-> JBool(TRUE), remind_at |-> time, message |-> msg])
NoMessage(time) == JObj([found |-> JBool(TRUE), remind_at |-> time])
NoTime(msg) == JObj([found |-> JBool(TRUE), message |-> msg])

ExtractOutputs ==
    { Raises,
      Text(<<Fence, Word("json"), Reminder(JStr(<<"1">>), JStr("call")), Fence>>),
      Text(<<JList>>),
      Text(<<NotFound>>),
      Text(<<Fence, Reminder(JStr(<<"1">>), JStr("call")), Fence>>),
      Text(<<Reminder(JStr(<<"x">>), JStr("call"))>>),
      Text(<<NoMessage(JStr(<<"1">>))>>),
      Text(<<NoTime(JStr("call"))>>) }

\* what the transcription and the summary calls do; `.text or ""` makes the
\* result a str
TranscribeOutputs == {Raises} \cup {Text(x) : x \in Transcripts}
SummaryOutputs == {Raises} \cup {Text(x) : x \in Summaries}

\* `.text or ""`: the str a handler gets from a call, "" when the call left
\* no text
TextOf(out) == IF out.ok THEN out.text ELSE ""

\* what the three calls of one upload do; a call after one that raises is
\* not made
AdapterOutputs ==
    {<<Raises, Raises, Raises>>}
    \cup {<<tr, Raises, Raises>> : tr \in TranscribeOutputs \ {Raises}}
    \cup ((TranscribeOutputs \ {Raises}) \X (SummaryOutputs \ {Raises}) \X ExtractOutputs)

\* the token field of an upload form: the tokens of the two users of
\* InitUpload and one that no row holds.  FastAPI answers 422 to a required
\* form field that is empty, so the handler runs with non-empty strings only.
UploadTokens == {Uuid4Hex(3), Uuid4Hex(4), Uuid4Hex(5)}

Init ==
    /\ users = <<>>
    /\ voices = <<>>
    /\ records = <<>>
    /\ reminders = <<>>
    /\ reqs = EmptyBag
    /\ now = 0
    /\ uuids = 0
    /\ resp = NoResp

\* ----------------------------------------------------------------- routes
\* register, up to the await: the email check and the draw of the user id
RegisterCheck(name, email, password, filename) ==
    /\ IF EmailTaken(users, email)
       THEN /\ resp' = ([op |-> "register", status |-> 409, email |-> email])
            /\ UNCHANGED <<users, voices, records, reminders, reqs, now, uuids>>
       ELSE /\ NumSuspended("register") < MaxRegistering
            /\ uuids < MaxUuid
            /\ uuids' = uuids + 1
            /\ reqs' = Suspend([pc |-> "register", uid |-> Uuid4Hex(uuids + 1),
                                name |-> name, email |-> email,
                                password |-> password, filename |-> filename])
            /\ UNCHANGED <<users, voices, records, reminders, now, resp>>

\* register, after voice.read() returned: the two appends.  embOk is whether
\* get_embedding returns (it raises on audio it cannot load).
RegisterAppend(q, embOk) ==
    LET userRow == [id |-> q.uid, name |-> q.name, email |-> q.email,
                    password |-> hash_password(q.password),
                    token |-> EmptyStr]
        voiceRow == [user_id |-> q.uid,
                     embedding |-> IF EndsWithWav(q.filename) THEN "[0.1]" ELSE "null"]
    IN /\ BagIn(q, reqs)
       /\ q.pc = "register"
       /\ Len(users) < MaxUsers
       /\ users' = append_csv(users, userRow)
       /\ reqs' = Resume(q)
       /\ IF EndsWithWav(q.filename) /\ ~embOk
          THEN /\ resp' = ([op |-> "register", status |-> 500, email |-> q.email])
               /\ UNCHANGED voices
          ELSE /\ voices' = append_csv(voices, voiceRow)
               /\ resp' = ([op |-> "register", status |-> 200, email |-> q.email])
       /\ UNCHANGED <<records, reminders, now, uuids>>

\* mutant of SetToken: a row that holds a token keeps it
SetTokenOnce(rows, email, token) ==
    [i \in 1..Len(rows) |->
        IF rows[i].email = email /\ rows[i].token = EmptyStr
        THEN [rows[i] EXCEPT !.token = token] ELSE rows[i]]

\* mutant of SetToken: only the rows with the email are written back
SetTokenMatchingOnly(rows, email, token) ==
    LET HasEmail(r) == r.email = email
        kept == SelectSeq(rows, HasEmail)
    IN [i \in 1..Len(kept) |-> [kept[i] EXCEPT !.token = token]]

\* mutant of SetToken: the rewrite stops after the first row with the email
SetTokenTruncated(rows, email, token) ==
    LET idx == {i \in 1..Len(rows) : rows[i].email = email}
        last == IF idx = {} THEN 0 ELSE Min(idx)
    IN [i \in 1..last |->
           IF rows[i].email = email THEN [rows[i] EXCEPT !.token = token] ELSE rows[i]]

\* mutant of SetToken: the test of the email is left out, every row gets the token
SetTokenAllRows(rows, email, token) ==
    [i \in 1..Len(rows) |-> [rows[i] EXCEPT !.token = token]]

\* the loop of login that stores the token: every row with the email gets it
SetToken(rows, email, token) ==
    [i \in 1..Len(rows) |->
        IF rows[i].email = email THEN [rows[i] EXCEPT !.token = token] ELSE rows[i]]

\* history: the token returned by the call completed just before, when that
\* call was a successful login with the same email; the empty string otherwise
PrevLoginToken(email) ==
    IF resp.op = "login" /\ resp.status = 200 /\ resp.email = email
    THEN resp.token ELSE EmptyStr

\* login: no await, so the whole handler is one step.  mailOk is whether
\* send_token_email returns.  The response keeps, next to the body, the token
\* the first row with the email held when the handler read the table (old).
Login(email, password, mailOk) ==
    LET idx == {i \in 1..Len(users) : users[i].email = email}
    IN /\ IF idx = {} \/ ~verify_password(password, users[Min(idx)].password)
          THEN /\ resp' = ([op |-> "login", status |-> 401, email |-> email])
               /\ UNCHANGED <<users, uuids>>
          ELSE /\ uuids < MaxUuid
               /\ uuids' = uuids + 1
               /\ users' = SetToken(users, email, generate_token(uuids))
               /\ resp' = ([op |-> "login",
                               status |-> IF mailOk THEN 200 ELSE 500,
                               email |-> email, token |-> generate_token(uuids),
                               prev |-> PrevLoginToken(email),
                               old |-> users[Min(idx)].token])
       /\ UNCHANGED <<voices, records, reminders, reqs, now>>

\* business_upload, up to the await: verify_token.  Of the row it returns the
\* rest of the handler reads user["email"] only, which the suspended request
\* keeps next to its form fields.
UploadVerify(token, department, filename) ==
    /\ IF verify_token(users, token).status = 401
       THEN /\ resp' = [op |-> "upload", status |-> 401, calls |-> <<>>,
                        token |-> token]
            /\ UNCHANGED reqs
       ELSE /\ NumSuspended("upload") < MaxUploading
            /\ reqs' = Suspend([pc |-> "upload", token |-> token,
                                email |-> verify_token(users, token).user.email,
                                department |-> department, filename |-> filename])
            /\ UNCHANGED resp
    /\ UNCHANGED <<users, voices, records, reminders, now, uuids>>

\* step 5 of business_upload: the reminders table after the upload of user
\* with the extraction result reminder, is_future_time reading the clock at
\* instant t and the row being stamped d later
SaveReminder(rows, user, reminder, t, d) ==
    LET msg == DictGet(reminder, "message")
        time == DictGet(reminder, "remind_at")
    IN IF /\ Truthy(DictGet(reminder, "found"))
          /\ is_future_time(time, t)
          /\ ~is_duplicate_reminder(rows, user, msg, time)
       THEN Append(rows, [user |-> user, text |-> CsvField(msg),
                          remind_at |-> CsvField(time), created_at |-> t + d])
       ELSE rows

\* mutant of Stage: a summary call that raises is passed over
StageSummaryOptional(filename, trOut, sumOut) ==
    IF MimeOf(Ext(filename)) = NoMime THEN "rejected"
    ELSE IF ~trOut.ok THEN "transcribe"
    ELSE "done"

\* how far the pipeline of business_upload gets: "rejected" when
\* speech_to_text refuses the file name, the adapter that raised, or "done"
\* when transcription and summary both returned
Stage(filename, trOut, sumOut) ==
    IF MimeOf(Ext(filename)) = NoMime THEN "rejected"
    ELSE IF ~trOut.ok THEN "transcribe"
    ELSE IF ~sumOut.ok THEN "summarize"
    ELSE "done"

\* mutant of UploadWrites: the reminder is appended before the record
UploadWritesReminderFirst(q, trOut, sumOut, reminder, rems, t, d) ==
    LET record == [user |-> q.email, department |-> q.department,
                   transcript |-> TextOf(trOut), summary |-> TextOf(sumOut)]
        saved == SaveReminder(rems, q.email, reminder, t, d)
    IN (IF reminder.t = "obj" /\ saved # rems
        THEN <<[file |-> "reminders", row |-> saved[Len(saved)]]>>
        ELSE <<>>)
       \o <<[file |-> "records", row |-> record]>>

\* the rows business_upload appends once transcript and summary are there,
\* in program order: the record, then the reminder when step 5 saves one.
\* rems is the reminders table, t the clock read by is_future_time, d the
\* time that passes until created_at is stamped.
UploadWrites(q, trOut, sumOut, reminder, rems, t, d) ==
    LET record == [user |-> q.email, department |-> q.department,
                   transcript |-> TextOf(trOut), summary |-> TextOf(sumOut)]
        saved == SaveReminder(rems, q.email, reminder, t, d)
    IN <<[file |-> "records", row |-> record]>>
       \o (IF reminder.t = "obj" /\ saved # rems
           THEN <<[file |-> "reminders", row |-> saved[Len(saved)]]>>
           ELSE <<>>)

\* a table after the appends of writes that go to file
RECURSIVE WriteAll(_, _, _)
WriteAll(rows, writes, file) ==
    IF writes = <<>> THEN rows
    ELSE WriteAll(IF Head(writes).file = file
                  THEN append_csv(rows, Head(writes).row) ELSE rows,
                  Tail(writes), file)

\* the delays between the two clock reads of step 5: none is drawn when no
\* reminder is saved
SaveDelays(q, reminder) ==
    IF reminder.t # "obj" THEN {0}
    ELSE IF SaveReminder(reminders, q.email, reminder, now, 0) = reminders THEN {0}
    ELSE Delays

\* business_upload, after audio.read() returned.  The response keeps, next to
\* the body, the adapters called (calls) and what the extraction call did (raw).
\*  trOut and sumOut are what
\* the transcription and the summary calls do (Raises, or a text), exOut what
\* the extraction call does.  When a reminder is saved, a time d passes between
\* the clock read of is_future_time and the one that stamps created_at.
UploadProcess(q, trOut, sumOut, exOut) ==
    LET reminder == extract_reminder(exOut)
        stage == Stage(q.filename, trOut, sumOut)
    IN /\ BagIn(q, reqs)
       /\ q.pc = "upload"
       /\ reqs' = Resume(q)
       /\ IF stage = "rejected"
          THEN /\ resp' = [op |-> "upload", status |-> 400, calls |-> <<>>]
               /\ UNCHANGED <<records, reminders, now>>
          ELSE IF stage = "transcribe"
          THEN /\ resp' = [op |-> "upload", status |-> 500, calls |-> <<"transcribe">>]
               /\ UNCHANGED <<records, reminders, now>>
          ELSE IF stage = "summarize"
          THEN /\ resp' = [op |-> "upload", status |-> 500,
                           calls |-> <<"transcribe", "summarize">>]
               /\ UNCHANGED <<records, reminders, now>>
          ELSE /\ Len(records) < MaxRecords
               /\ \E d \in SaveDelays(q, reminder) :
                     LET writes == UploadWrites(q, trOut, sumOut, reminder,
                                                reminders, now, d)
                     IN /\ records' = WriteAll(records, writes, "records")
                        /\ reminders' = WriteAll(reminders, writes, "reminders")
                        /\ now' = now + d
               /\ Len(reminders') <= MaxReminders
               /\ now' <= MaxTime
               /\ resp' = IF reminder.t # "obj"
                          THEN \* reminder.get raises AttributeError
                               [op |-> "upload", status |-> 500,
                                calls |-> <<"transcribe", "summarize", "extract">>,
                                raw |-> exOut]
                          ELSE [op |-> "upload", status |-> 200,
                                calls |-> <<"transcribe", "summarize", "extract">>,
                                transcript |-> TextOf(trOut),
                                summary |-> TextOf(sumOut),
                                reminder |-> reminder, raw |-> exOut]
       /\ UNCHANGED <<users, voices, uuids>>

\* the server process is killed while an upload runs its pipeline: n of the
\* appends of the handler have reached the files, no response is sent, and the
\* requests suspended in the process are gone with it.  In place of a
\* response the model keeps how many appends were done and how many were
\* still to come.
UploadCrash(q, trOut, sumOut, exOut, n) ==
    LET reminder == extract_reminder(exOut)
        stage == Stage(q.filename, trOut, sumOut)
    IN /\ BagIn(q, reqs)
       /\ q.pc = "upload"
       /\ reqs' = EmptyBag
       /\ IF stage # "done"
          THEN /\ n = 0
               /\ resp' = [op |-> "crash", status |-> 0, done |-> 0, pending |-> 0]
               /\ UNCHANGED <<records, reminders, now>>
          ELSE /\ Len(records) < MaxRecords
               /\ \E d \in SaveDelays(q, reminder) :
                     LET writes == UploadWrites(q, trOut, sumOut, reminder,
                                                reminders, now, d)
                     IN /\ n <= Len(writes)
                        /\ records' = WriteAll(records, SubSeq(writes, 1, n), "records")
                        /\ reminders' = WriteAll(reminders, SubSeq(writes, 1, n),
                                                 "reminders")
                        /\ now' = IF n = Len(writes) THEN now + d ELSE now
                        /\ resp' = [op |-> "crash", status |-> 0, done |-> n,
                                    pending |-> Len(writes) - n]
               /\ Len(reminders') <= MaxReminders
               /\ now' <= MaxTime
       /\ UNCHANGED <<users, voices, uuids>>

\* time passes between requests
Tick ==
    /\ now < MaxTime
    /\ now' = now + 1
    /\ UNCHANGED <<users, voices, records, reminders, reqs, uuids, resp>>

Next ==
    \/ \E n \in Names, e \in Emails, p \in Passwords, f \in VoiceFilenames :
          RegisterCheck(n, e, p, f)
    \/ \E q \in BagToSet(reqs), ok \in BOOLEAN : RegisterAppend(q, ok)
    \/ \E e \in Emails, p \in LoginPasswords, ok \in BOOLEAN : Login(e, p, ok)
    \/ \E t \in UploadTokens, dep \in Departments, f \in Filenames :
          UploadVerify(t, dep, f)
    \/ \E q \in BagToSet(reqs), out \in AdapterOutputs :
          UploadProcess(q, out[1], out[2], out[3])
    \/ Tick

\* the whole program; the claims are checked under its two halves below
Spec == Init /\ [][Next]_vars

\* ------------------------------------------------- registration and login
\* The handlers that write users.csv and voices.csv, from the empty tables.
NextAuth ==
    \/ \E n \in Names, e \in Emails, p \in Passwords, f \in VoiceFilenames :
          RegisterCheck(n, e, p, f)
    \/ \E q \in BagToSet(reqs), ok \in BOOLEAN : RegisterAppend(q, ok)
    \/ \E e \in Emails, p \in LoginPasswords, ok \in BOOLEAN : Login(e, p, ok)

SpecAuth == Init /\ [][NextAuth]_vars

\* ------------------------------------------------------------------ upload
\* The upload pipeline, from the state that two registrations followed by a
\* login of each user leave behind.
InitUpload ==
    /\ users = << [id |-> Uuid4Hex(1), name |-> "alice", email |-> "a@x",
                   password |-> hash_password(<<"p">>), token |-> Uuid4Hex(3)],
                  [id |-> Uuid4Hex(2), name |-> "alice", email |-> "A@x",
                   password |-> hash_password(<<"p">>), token |-> Uuid4Hex(4)] >>
    /\ voices = << [user_id |-> Uuid4Hex(1), embedding |-> "[0.1]"],
                   [user_id |-> Uuid4Hex(2), embedding |-> "null"] >>
    /\ records = <<>>
    /\ reminders = <<>>
    /\ reqs = EmptyBag
    /\ now = 0
    /\ uuids = 4
    /\ resp = [op |-> "login", status |-> 200, email |-> "A@x",
               token |-> Uuid4Hex(4), prev |-> EmptyStr, old |-> EmptyStr]

NextUpload ==
    \/ \E t \in UploadTokens, dep \in Departments, f \in Filenames :
          UploadVerify(t, dep, f)
    \/ \E q \in BagToSet(reqs), out \in AdapterOutputs :
          UploadProcess(q, out[1], out[2], out[3])
    \/ Tick

SpecUpload == InitUpload /\ [][NextUpload]_vars

\* ------------------------------------------------------ upload and crash
\* The upload pipeline on a server whose process can be killed at any point
\* of an upload.
NextCrash ==
    \/ \E t \in UploadTokens, dep \in Departments, f \in Filenames :
          UploadVerify(t, dep, f)
    \/ \E q \in BagToSet(reqs), out \in AdapterOutputs :
          UploadProcess(q, out[1], out[2], out[3])
    \/ \E q \in BagToSet(reqs), out \in AdapterOutputs, n \in 0..2 :
          UploadCrash(q, out[1], out[2], out[3], n)
    \/ Tick

SpecCrash == InitUpload /\ [][NextCrash]_vars

\* ----------------------------------------------------- login, then upload
\* Logins and uploads of one user, from the state that a registration
\* followed by a login leaves behind.
InitSession ==
    /\ users = << [id |-> Uuid4Hex(1), name |-> "alice", email |-> "a@x",
                   password |-> hash_password(<<"p">>), token |-> Uuid4Hex(2)] >>
    /\ voices = << [user_id |-> Uuid4Hex(1), embedding |-> "[0.1]"] >>
    /\ records = <<>>
    /\ reminders = <<>>
    /\ reqs = EmptyBag
    /\ now = 0
    /\ uuids = 2
    /\ resp = [op |-> "login", status |-> 200, email |-> "a@x",
               token |-> Uuid4Hex(2), prev |-> EmptyStr, old |-> EmptyStr]

\* the token field of an upload form in a session: the token the user holds
\* first and the one a later login stores
SessionTokens == {Uuid4Hex(2), Uuid4Hex(3)}

NextSession ==
    \/ \E e \in Emails, p \in LoginPasswords, ok \in BOOLEAN : Login(e, p, ok)
    \/ \E t \in SessionTokens, dep \in Departments, f \in Filenames :
          UploadVerify(t, dep, f)
    \/ \E q \in BagToSet(reqs), out \in AdapterOutputs :
          UploadProcess(q, out[1], out[2], out[3])

SpecSession == InitSession /\ [][NextSession]_vars

\* ================================================================== claims

\* C1: under any interleaving of concurrent register requests, no two
\* distinct rows of the users table have the same email.
UniqueEmails ==
    \A i, j \in 1..Len(users) : users[i].email = users[j].email => i = j

\* C2: when two successful logins of the same user follow each other with no
\* other call completed in between, the token of the first no longer
\* validates (401) and the token of the second validates and gives the row
\* of that user, the first one with the email.
TokenFreshness ==
    (resp.op = "login" /\ resp.status = 200 /\ resp.prev # EmptyStr) =>
        /\ verify_token(users, resp.prev).status = 401
        /\ verify_token(users, resp.token).status = 200
        /\ verify_token(users, resp.token).user.email = resp.email
        /\ \E i \in 1..Len(users) :
              /\ users[i] = verify_token(users, resp.token).user
              /\ \A k \in 1..(i - 1) : users[k].email # resp.email

\* C2 witness: the second of two successive successful logins of one user
\* has completed.
TwoLoginsDone ==
    /\ resp.op = "login" /\ resp.status = 200
    /\ resp.prev # EmptyStr /\ resp.prev # resp.token

\* C3: the reminders table never holds two rows with the same (user email,
\* message, remind_at) triple, whatever the extraction results were.
NoDuplicateReminders ==
    \A i, j \in 1..Len(reminders) :
        ( /\ reminders[i].user = reminders[j].user
          /\ reminders[i].text = reminders[j].text
          /\ reminders[i].remind_at = reminders[j].remind_at ) => i = j

\* C4: every row of the reminders table has a remind_at that parses and is
\* strictly later than the row's created_at.
RemindAtAfterCreation ==
    \A i \in 1..Len(reminders) :
        /\ strptime(reminders[i].remind_at) # BadTime
        /\ strptime(reminders[i].remind_at) > reminders[i].created_at

\* C5: a step that completes an upload with status 200 whose extraction result
\* has a true found, a remind_at that parses and is strictly after the instant
\* of the step, and a (user email, message, remind_at) triple that no stored
\* reminder has, adds exactly one row to the reminders table, and the row
\* carries that email, message and remind_at.
FutureReminderPersistedOnce ==
    [][ ( /\ BagCardinality(reqs') < BagCardinality(reqs)
          /\ resp'.op = "upload" /\ resp'.status = 200
          /\ Len(records') = Len(records) + 1 ) =>
        LET email == records'[Len(records')].user
            found == DictGet(resp'.reminder, "found")
            msg == DictGet(resp'.reminder, "message")
            time == DictGet(resp'.reminder, "remind_at")
        IN ( /\ found = JBool(TRUE)
             /\ time.t = "str"
             /\ strptime(time.v) # BadTime
             /\ strptime(time.v) > now
             /\ \A i \in 1..Len(reminders) :
                   ~ ( /\ reminders[i].user = email
                       /\ msg.t = "str" /\ reminders[i].text = msg.v
                       /\ reminders[i].remind_at = time.v ) ) =>
           ( /\ Len(reminders') = Len(reminders) + 1
             /\ SubSeq(reminders', 1, Len(reminders)) = reminders
             /\ reminders'[Len(reminders')].user = email
             /\ reminders'[Len(reminders')].text = (IF msg.t = "str" THEN msg.v ELSE "")
             /\ reminders'[Len(reminders')].remind_at = time.v )
      ]_vars

\* C5 witness: an upload of the second user has just stored a reminder with
\* the message and time of a reminder that the first user already has.
SecondUserReminderStored ==
    /\ resp.op = "upload" /\ resp.status = 200
    /\ Len(reminders) = 2
    /\ reminders[1].user # reminders[2].user
    /\ reminders[1].text = reminders[2].text
    /\ reminders[1].remind_at = reminders[2].remind_at
    /\ DictGet(resp.reminder, "found") = JBool(TRUE)
    /\ DictGet(resp.reminder, "message") = JStr(reminders[2].text)
    /\ DictGet(resp.reminder, "remind_at") = JStr(reminders[2].remind_at)

\* C6: a step that completes an upload in which the extraction call raised,
\* gave a text that is no JSON, or gave JSON that is not an object, answers
\* 200 with the reminder {found: false}, appends one record row and appends
\* no reminder row.
MalformedExtractionTolerated ==
    [][ ( /\ BagCardinality(reqs') < BagCardinality(reqs)
          /\ resp'.op = "upload"
          /\ Len(resp'.calls) = 3
          /\ \/ ~resp'.raw.ok
             \/ Len(SelectSeq(resp'.raw.text, NotFence)) # 1
             \/ SelectSeq(resp'.raw.text, NotFence)[1].t # "obj" ) =>
        ( /\ resp'.status = 200
          /\ resp'.reminder = NotFound
          /\ Len(records') = Len(records) + 1
          /\ reminders' = reminders )
      ]_vars

\* C7: a step that completes an upload whose file name has an extension (the
\* part after the last dot, in lower case) outside wav, mp3, mp4, ogg answers
\* 400 with no adapter called and leaves the records and reminders tables
\* as they were.
UnsupportedMediaRejected ==
    [][ \A q \in BagToSet(reqs) :
          ( /\ q.pc = "upload"
            /\ CopiesIn(q, reqs') < CopiesIn(q, reqs)
            /\ Ext(q.filename) \notin {<<"w", "a", "v">>, <<"m", "p", "3">>,
                                       <<"m", "p", "4">>, <<"o", "g", "g">>} ) =>
          ( /\ resp'.op = "upload" /\ resp'.status = 400
            /\ resp'.calls = <<>>
            /\ records' = records
            /\ reminders' = reminders )
      ]_vars

\* C7 witness: an upload was answered 400.
UploadRejected400 ==
    resp.op = "upload" /\ resp.status = 400 /\ records = <<>> /\ reminders = <<>>

\* C8: a register request whose email is the email of a user row is answered
\* 409 and changes neither the users nor the voices table: a step that
\* answers 409 changes no table and its email is in the users table, and no
\* step lets a registration go on (suspend at the await) with an email that
\* is in the users table.
DuplicateEmailConflict ==
    [][ /\ (resp' # resp /\ resp'.op = "register" /\ resp'.status = 409) =>
              ( /\ users' = users /\ voices' = voices /\ reqs' = reqs
                /\ \E i \in 1..Len(users) : users[i].email = resp'.email )
        /\ \A q \in BagToSet(reqs') :
              (q.pc = "register" /\ ~BagIn(q, reqs)) =>
                  \A i \in 1..Len(users) : users[i].email # q.email
      ]_vars

\* C8 witness: a registration was answered 409 while the table holds two
\* users whose emails differ in case only.
ConflictAnswered ==
    /\ resp.op = "register" /\ resp.status = 409
    /\ Len(users) = 2 /\ users[1].email # users[2].email
    /\ resp.email = users[2].email

\* C9: each non-empty token stored in the users table is in exactly one row.
TokenIdentifiesOneUser ==
    \A i, j \in 1..Len(users) :
        (users[i].token # EmptyStr /\ users[i].token = users[j].token) => i = j

\* C10: verify_token of the empty token fails with 401 in every state, also
\* when a registered user has never logged in.
EmptyTokenNeverMatches ==
    verify_token(users, EmptyStr).status = 401

\* C11: an upload whose token no row of the users table holds when
\* verify_token runs is answered 401 with no adapter called, suspends no
\* request and leaves the records and reminders tables as they were; only a
\* token that a row holds lets an upload reach its await.  A token that a
\* later login replaced is such a token.
StaleTokenRejected ==
    [][ /\ \A q \in BagToSet(reqs') :
             (q.pc = "upload" /\ CopiesIn(q, reqs') > CopiesIn(q, reqs)) =>
                \E i \in 1..Len(users) : users[i].token = q.token
        /\ (resp' # resp /\ resp'.op = "upload" /\ resp'.status = 401) =>
             ( /\ \A i \in 1..Len(users) : users[i].token # resp'.token
               /\ resp'.calls = <<>>
               /\ reqs' = reqs
               /\ records' = records
               /\ reminders' = reminders )
      ]_vars

\* C11 witness: the token the user held first was answered 401 after a later
\* login had replaced it.
StaleTokenAnswered401 ==
    /\ resp.op = "upload" /\ resp.status = 401
    /\ resp.token = Uuid4Hex(2)
    /\ users[1].token = Uuid4Hex(3)

\* C12: whatever the interleaving of logins with registrations suspended at
\* their await, every step keeps each row of the users table in place with
\* all its fields but the token; a registration that answers 200 has its row
\* at the end of the table; a stored token changes only in a login of that
\* row's email, to the token of that login; and after a login that answers
\* 200 every row with its email holds the token returned.
NoLostUpdate ==
    [][ /\ Len(users') >= Len(users)
        /\ \A i \in 1..Len(users) :
              /\ users'[i] = [users[i] EXCEPT !.token = users'[i].token]
              /\ users'[i].token # users[i].token =>
                    ( /\ resp' # resp
                      /\ resp'.op = "login" /\ resp'.status \in {200, 500}
                      /\ resp'.email = users[i].email
                      /\ resp'.token = users'[i].token )
        /\ ( /\ BagCardinality(reqs') < BagCardinality(reqs)
             /\ resp'.op = "register" /\ resp'.status = 200 ) =>
              ( /\ Len(users') = Len(users) + 1
                /\ users'[Len(users')].email = resp'.email )
        /\ (resp' # resp /\ resp'.op = "login" /\ resp'.status = 200) =>
              ( /\ \E i \in 1..Len(users') : users'[i].email = resp'.email
                /\ \A i \in 1..Len(users') :
                      users'[i].email = resp'.email =>
                         users'[i].token = resp'.token )
      ]_vars

\* C12 witness: a registration that drew its user id before a login drew its
\* token appended its row after that login and answered 200; the table holds
\* the row of the login with its token and the row of the registration.
RegistrationAcrossLogin ==
    /\ resp.op = "register" /\ resp.status = 200
    /\ Len(users) = 2
    /\ users[1].token # EmptyStr
    /\ users[2].id[1] < users[1].token[1]

\* C13: in every step the records table of before is a prefix of the records
\* table of after, and a step that completes an upload with status 200 adds
\* exactly one row, which carries the email of the user the token identified,
\* the department of the form, and the transcript and summary of the response.
RecordsAppendOnly ==
    [][ /\ Len(records') >= Len(records)
        /\ SubSeq(records', 1, Len(records)) = records
        /\ \A q \in BagToSet(reqs) :
              ( /\ q.pc = "upload"
                /\ CopiesIn(q, reqs') < CopiesIn(q, reqs)
                /\ resp'.op = "upload" /\ resp'.status = 200 ) =>
              ( /\ Len(records') = Len(records) + 1
                /\ records'[Len(records')] =
                      [user |-> q.email, department |-> q.department,
                       transcript |-> resp'.transcript,
                       summary |-> resp'.summary] )
      ]_vars

\* C13 witness: an upload answered 200 appended its record after the record
\* of an earlier upload.
SecondRecordAppended ==
    /\ resp.op = "upload" /\ resp.status = 200
    /\ Len(records) = 2
    /\ records[2].transcript = resp.transcript

\* C14: a step that completes an upload whose last adapter call was the
\* transcription or the summary (that call raised) answers 500 and leaves the
\* records and reminders tables as they were; an upload answered 200 carries a
\* transcript and a summary that the adapters returned; and a step that
\* completes an upload whose extraction call raised answers 200 and appends
\* one record row.
AdapterFailureAborts ==
    [][ ( /\ BagCardinality(reqs') < BagCardinality(reqs)
          /\ resp'.op = "upload" ) =>
        ( /\ Len(resp'.calls) \in {1, 2} =>
                ( /\ resp'.status = 500
                  /\ records' = records
                  /\ reminders' = reminders )
          /\ resp'.status = 200 =>
                ( /\ resp'.calls = <<"transcribe", "summarize", "extract">>
                  /\ resp'.transcript \in Transcripts
                  /\ resp'.summary \in Summaries )
          /\ (Len(resp'.calls) = 3 /\ ~resp'.raw.ok) =>
                ( /\ resp'.status = 200
                  /\ Len(records') = Len(records) + 1 ) )
      ]_vars

\* C14 witness: after an upload that stored a record and a reminder, an
\* upload whose summary call raised was answered 500 and the tables still
\* hold that one record and that one reminder.
SummaryFailureAnswered500 ==
    /\ resp.op = "upload" /\ resp.status = 500
    /\ resp.calls = <<"transcribe", "summarize">>
    /\ Len(records) = 1
    /\ Len(reminders) = 1

\* C15: in every state with no request suspended, each user id of the users
\* table is the user_id of exactly one row of the voiceprints table.
OneVoiceprintPerUser ==
    reqs = EmptyBag =>
        \A i \in 1..Len(users) :
            Cardinality({j \in 1..Len(voices) : voices[j].user_id = users[i].id}) = 1

ReminderHasRecord ==
    \A e \in {reminders[i].user : i \in 1..Len(reminders)} :
        Cardinality({i \in 1..Len(reminders) : reminders[i].user = e})
            <= Cardinality({i \in 1..Len(records) : records[i].user = e})

\* C17 witness: the process was killed between the record append and the
\* reminder append of an upload that had been answered 200 once before; the
\* tables hold two records of the user and the one reminder of the first
\* upload.
RecordWithoutReminder ==
    /\ resp.op = "crash" /\ resp.done = 1 /\ resp.pending = 1
    /\ Len(records) = 2
    /\ Len(reminders) = 1
    /\ records[2].user = reminders[1].user

\* C18: a user row without a voiceprint row is the row of a registration
\* whose get_embedding raised.  In every step such a row stays where it is,
\* no voiceprint row with its id appears, and no register request with its
\* email gets past the email check to its await.
FailedRegistrationSticks ==
    [][ \A i \in 1..Len(users) :
          (\A j \in 1..Len(voices) : voices[j].user_id # users[i].id) =>
             ( /\ Len(users') >= Len(users)
               /\ users'[i].id = users[i].id
               /\ users'[i].email = users[i].email
               /\ \A j \in 1..Len(voices') : voices'[j].user_id # users[i].id
               /\ \A q \in BagToSet(reqs') :
                     (q.pc = "register" /\ CopiesIn(q, reqs') > CopiesIn(q, reqs)) =>
                        q.email # users[i].email )
      ]_vars

\* C18 witness: a register request with the email of a user whose
\* registration failed after the user row was appended was answered 409, and
\* the user has no voiceprint row.
RetryAfterFailureConflicts ==
    /\ resp.op = "register" /\ resp.status = 409
    /\ Len(users) = 1 /\ users[1].email = resp.email
    /\ voices = <<>>

\* C19: after a login that failed because send_token_email raised, the token
\* the login generated identifies the first row with the login's email, and
\* the token that row held before, when it held one, matches no row.
TokenStoredBeforeMail ==
    (resp.op = "login" /\ resp.status = 500) =>
        /\ verify_token(users, resp.token).status = 200
        /\ verify_token(users, resp.token).user.email = resp.email
        /\ resp.old # EmptyStr => verify_token(users, resp.old).status = 401

\* C19 witness: a user who held a token logged in with the right password,
\* send_token_email raised, and the table holds the new token.
MailFailedTokenReplaced ==
    /\ resp.op = "login" /\ resp.status = 500
    /\ resp.old # EmptyStr
    /\ \E i \in 1..Len(users) :
          users[i].email = resp.email /\ users[i].token = resp.token

\* C20: a login step that answers 401 leaves the users table as it was; a
\* login step that stores a token leaves a table of the same length in which
\* each row with the login's email is the row of before with the new token
\* and each row with another email is the row of before; no login step
\* touches another table or a suspended request.
LoginChangesTokenOnly ==
    [][ (resp' # resp /\ resp'.op = "login") =>
        ( /\ IF resp'.status = 401
             THEN users' = users
             ELSE /\ Len(users') = Len(users)
                  /\ \A i \in 1..Len(users) :
                        users'[i] = IF users[i].email = resp'.email
                                    THEN [users[i] EXCEPT !.token = resp'.token]
                                    ELSE users[i]
          /\ voices' = voices
          /\ records' = records
          /\ reminders' = reminders
          /\ reqs' = reqs )
      ]_vars

\* C20 witness: the user of the second row logged in; the second row holds
\* the token returned and the first row, of another email, is as it was
\* registered.
LoginKeptOtherRow ==
    /\ resp.op = "login" /\ resp.status = 200
    /\ Len(users) = 2
    /\ users[2].email = resp.email /\ users[2].token = resp.token
    /\ users[1].email # resp.email /\ users[1].token = EmptyStr

====
